---- MODULE Spec2Model ----
(***************************************************************************)
(* Model of analyze_dicom (src/analyze_dicom.py), restricted to the part   *)
(* that works on the raw PixelData bytes: the encapsulation-structure scan *)
(* (lines 75-93) and the video-stream check (lines 99-128).                *)
(*                                                                         *)
(* Python indices are 0-based; the operators At and Slice below carry the  *)
(* translation to TLA+'s 1-based sequences, so every index that appears in *)
(* a variable or a formula is a Python index.                              *)
(*                                                                         *)
(* Python integers are unbounded and a 4-byte length can be 0xFFFFFFFF,    *)
(* which does not fit a TLC integer.  Such values are kept as "wide"       *)
(* numbers <<hi, lo>> standing for hi * 65536 + lo with lo in 0..65535.    *)
(***************************************************************************)
EXTENDS Integers, Sequences, FiniteSets, TLC

\* ------------------------------------------------------------------ bounds
MaxTokens == 2      \* tokens concatenated into a short input buffer
MaxLead == 5        \* zero bytes put in front of a short input buffer
MaxCut == 1         \* bytes cut off the end of an input buffer
WindowBack == 4     \* how far before the scan limit a window input's tag starts

\* ------------------------------------------------------- program constants
ScanLimit == 200    \* while pos < min(len(raw), 200)
SearchLimit == 200  \* for i in range(min(len(raw), 200))

ITEM_TAG == <<254, 255, 0, 224>>       \* bytes([0xfe, 0xff, 0x00, 0xe0])
SEQ_DELIM == <<254, 255, 221, 224>>    \* bytes([0xfe, 0xff, 0xdd, 0xe0])
FTYP == <<102, 116, 121, 112>>         \* b'ftyp'
MDAT == <<109, 100, 97, 116>>          \* b'mdat'
AVCC == <<97, 118, 99, 67>>            \* b'avcC'

\* ------------------------------------------------------------ wide numbers
\* a wide number is two 16-bit digits
Base == 256 * 256

W(n) == <<n \div Base, n % Base>>

WAdd(a, b) ==
    LET lo == a[2] + b[2]
    IN  <<a[1] + b[1] + (lo \div Base), lo % Base>>

\* a < n, for a wide a and a small integer n
WLess(a, n) == a[1] = 0 /\ a[2] < n

UNDEFINED_LENGTH == <<65535, 65535>>   \* 0xffffffff
ZERO == <<0, 0>>

\* ---------------------------------------------------------- Python helpers
Min(a, b) == IF a < b THEN a ELSE b

\* raw[k]
At(buf, k) == buf[k + 1]

\* raw[a:b] for 0 <= a: the bytes a .. b-1 that exist
Slice(buf, a, b) == SubSeq(buf, a + 1, Min(b, Len(buf)))

ByteOr0(bs, k) == IF k <= Len(bs) THEN bs[k] ELSE 0

\* int.from_bytes(bs, 'little') for at most 4 bytes
FromBytesLittle(bs) ==
    <<ByteOr0(bs, 3) + 256 * ByteOr0(bs, 4), ByteOr0(bs, 1) + 256 * ByteOr0(bs, 2)>>

Reverse(bs) == [k \in 1..Len(bs) |-> bs[Len(bs) + 1 - k]]

\* int.from_bytes(bs, 'big') for at most 4 bytes
FromBytesBig(bs) == FromBytesLittle(Reverse(bs))

\* raw.find(needle): the first index where needle occurs, or -1
Find(buf, needle) ==
    LET hits == {k \in 0..(Len(buf) - Len(needle)) :
                    Slice(buf, k, k + Len(needle)) = needle}
    IN  IF hits = {} THEN -1
        ELSE CHOOSE k \in hits : \A h \in hits : k <= h

\* profile_names.get(profile_idc, 'Unknown')
ProfileName(profile_idc) ==
    IF profile_idc = 66 THEN "Baseline"
    ELSE IF profile_idc = 77 THEN "Main"
    ELSE IF profile_idc = 100 THEN "High"
    ELSE "Unknown"

\* f"{level_idc / 10:.1f}": the integer part and the single decimal digit
FormatLevel(level_idc) == <<level_idc \div 10, level_idc % 10>>

\* ------------------------------------------------------------------ inputs
ZERO4 == <<0, 0, 0, 0>>
LEN4 == <<4, 0, 0, 0>>
LENUNDEF == <<255, 255, 255, 255>>
SIZE24 == <<0, 0, 0, 24>>
SIZE1 == <<0, 0, 0, 1>>
CFG_HIGH == <<1, 100, 0, 41>>
CFG_MAIN == <<1, 77, 0, 31>>
CFG_BASE == <<1, 66, 0, 30>>
EXT_SIZE == <<0, 0, 0, 1, 0, 0, 0, 0>>         \* a 64-bit size of 2^32

EMPTY_ITEM == ITEM_TAG \o ZERO4                \* an item of length 0
UNDEF_ITEM == ITEM_TAG \o LENUNDEF             \* an item of undefined length
DATA_ITEM == ITEM_TAG \o LEN4                  \* the header of a 4-byte item
FTYP_BOX == SIZE24 \o FTYP                     \* the header of a 24-byte ftyp box
EXT_BOX == SIZE1 \o FTYP \o EXT_SIZE           \* an extended-size ftyp header
AVC_HIGH == AVCC \o CFG_HIGH                   \* avcC records
AVC_MAIN == AVCC \o CFG_MAIN
AVC_BASE == AVCC \o CFG_BASE

Tokens == {ITEM_TAG, EMPTY_ITEM, UNDEF_ITEM, DATA_ITEM, SEQ_DELIM, ZERO4,
           FTYP, MDAT, FTYP_BOX, EXT_BOX, AVCC, AVC_HIGH, AVC_MAIN, AVC_BASE}

WindowTokens == {ITEM_TAG, SEQ_DELIM, FTYP, MDAT, AVCC}
WindowTails == {<<>>, LEN4, CFG_HIGH}

RECURSIVE Flatten(_)
Flatten(ts) == IF ts = <<>> THEN <<>> ELSE Head(ts) \o Flatten(Tail(ts))

Zeros(n) == [k \in 1..n |-> 0]

Cut(buf, c) == SubSeq(buf, 1, Len(buf) - Min(c, Len(buf)))

TokenSeqs == UNION {[1..n -> Tokens] : n \in 0..MaxTokens}

ShortInputs ==
    {Cut(Zeros(lead) \o Flatten(ts), c) :
        lead \in 0..MaxLead, ts \in TokenSeqs, c \in 0..MaxCut}

WindowInputs ==
    {Cut(Zeros(p) \o t \o tail, c) :
        p \in (ScanLimit - WindowBack)..(ScanLimit + 1),
        t \in WindowTokens, tail \in WindowTails, c \in 0..MaxCut}

Inputs == ShortInputs \cup WindowInputs

\* ------------------------------------------------------------------- state
VARIABLES
    raw,          \* the PixelData bytes
    pc,           \* "frag", "box", "check", "avc", "done"
    pos,          \* position of the encapsulation scan (wide)
    item_count,   \* items printed so far
    items,        \* the "Item n at offset o: length=l" lines
    delimiter,    \* the "Sequence delimiter at offset o" line: <<>> or <<o>>
    i,            \* index of the ftyp/mdat loop
    video_start,  \* <<>> for None, else <<i - 4>>
    atom,         \* the "First MP4 atom" line: <<>> or <<[size, type, offset]>>
    avc,          \* <<>>, <<[kind |-> "config", ...]>> or <<[kind |-> "notfound"]>>
    error,        \* the "Error checking video stream" line was printed
    oob           \* the out-of-range index that raised IndexError: <<>> or <<k>>

vars == <<raw, pc, pos, item_count, items, delimiter, i, video_start, atom,
          avc, error, oob>>

Init ==
    /\ raw \in Inputs
    /\ pc = "frag"
    /\ pos = W(0)
    /\ item_count = 0
    /\ items = <<>>
    /\ delimiter = <<>>
    /\ i = 0
    /\ video_start = <<>>
    /\ atom = <<>>
    /\ avc = <<>>
    /\ error = FALSE
    /\ oob = <<>>

\* ------------------------------------------- encapsulation scan, lines 75-93
\* while pos < min(len(raw), 200)
FragLoopCond(buf, p) == WLess(p, Min(Len(buf), ScanLimit))

InFragLoop == pc = "frag" /\ FragLoopCond(raw, pos)

\* TagAt without the elif of line 89
TagAt_NoDelimiter(buf, p) ==
    IF Slice(buf, p, p + 4) = ITEM_TAG THEN "item" ELSE "other"

\* what the 4 bytes at p are
TagAt(buf, p) ==
    IF Slice(buf, p, p + 4) = ITEM_TAG THEN "item"
    ELSE IF Slice(buf, p, p + 4) = SEQ_DELIM THEN "delimiter"
    ELSE "other"

ItemLength(buf, p) == FromBytesLittle(Slice(buf, p + 4, p + 8))

\* ItemAdvance with line 87 advancing by 8 only
ItemAdvance_HeaderOnly(p, length) == WAdd(p, W(8))

\* the new position after an item of the given length at wide position p
ItemAdvance(p, length) ==
    IF length = ZERO THEN WAdd(p, W(8))
    ELSE IF length = UNDEFINED_LENGTH THEN WAdd(p, W(8))
    ELSE WAdd(WAdd(p, W(8)), length)

\* the break of line 88
ItemBreaks(length) == length # ZERO /\ length # UNDEFINED_LENGTH

FragItem ==
    /\ InFragLoop
    /\ TagAt(raw, pos[2]) = "item"
    /\ LET length == ItemLength(raw, pos[2])
       IN  /\ items' = Append(items, [index |-> item_count, offset |-> pos[2],
                                      length |-> length])
           /\ item_count' = item_count + 1
           /\ pos' = ItemAdvance(pos, length)
           /\ pc' = IF ItemBreaks(length) THEN "box" ELSE "frag"
    /\ UNCHANGED <<raw, delimiter, i, video_start, atom, avc, error, oob>>

FragDelimiter ==
    /\ InFragLoop
    /\ TagAt(raw, pos[2]) = "delimiter"
    /\ delimiter' = <<pos[2]>>
    /\ pc' = "box"
    /\ UNCHANGED <<raw, pos, item_count, items, i, video_start, atom, avc,
                   error, oob>>

FragSkip ==
    /\ InFragLoop
    /\ TagAt(raw, pos[2]) = "other"
    /\ pos' = WAdd(pos, W(1))
    /\ UNCHANGED <<raw, pc, item_count, items, delimiter, i, video_start, atom,
                   avc, error, oob>>

FragEnd ==
    /\ pc = "frag"
    /\ ~FragLoopCond(raw, pos)
    /\ pc' = "box"
    /\ UNCHANGED <<raw, pos, item_count, items, delimiter, i, video_start, atom,
                   avc, error, oob>>

\* ----------------------------------------- ftyp/mdat search, lines 103-108
IsSignature(buf, k) == Slice(buf, k, k + 4) = FTYP \/ Slice(buf, k, k + 4) = MDAT

\* BoxLoopCond without the 200 of line 104
BoxLoopCond_Unbounded(buf, k) == k < Len(buf)

\* for i in range(min(len(raw), 200))
BoxLoopCond(buf, k) == k < Min(Len(buf), SearchLimit)

InBoxLoop == pc = "box" /\ BoxLoopCond(raw, i)

BoxProbe ==
    /\ InBoxLoop
    /\ ~IsSignature(raw, i)
    /\ i' = i + 1
    /\ UNCHANGED <<raw, pc, pos, item_count, items, delimiter, video_start,
                   atom, avc, error, oob>>

BoxMatch ==
    /\ InBoxLoop
    /\ IsSignature(raw, i)
    /\ video_start' = <<i - 4>>
    /\ pc' = "check"
    /\ UNCHANGED <<raw, pos, item_count, items, delimiter, i, atom, avc, error,
                   oob>>

BoxEnd ==
    /\ pc = "box"
    /\ ~BoxLoopCond(raw, i)
    /\ pc' = "check"
    /\ UNCHANGED <<raw, pos, item_count, items, delimiter, i, video_start, atom,
                   avc, error, oob>>

\* --------------------------------------------- atom report, lines 110-114
\* if video_start and video_start > 0
HasAtom(vs) == vs # <<>> /\ vs[1] # 0 /\ vs[1] > 0

AtomSize(buf, vs) == FromBytesBig(Slice(buf, vs, vs + 4))

AtomType(buf, vs) == Slice(buf, vs + 4, vs + 8)

AtomReport ==
    /\ pc = "check"
    /\ HasAtom(video_start)
    /\ atom' = <<[offset |-> video_start[1],
                  size |-> AtomSize(raw, video_start[1]),
                  type |-> AtomType(raw, video_start[1])]>>
    /\ pc' = "avc"
    /\ UNCHANGED <<raw, pos, item_count, items, delimiter, i, video_start, avc,
                   error, oob>>

AtomSkip ==
    /\ pc = "check"
    /\ ~HasAtom(video_start)
    /\ pc' = "done"
    /\ UNCHANGED <<raw, pos, item_count, items, delimiter, i, video_start, atom,
                   avc, error, oob>>

\* --------------------------------------------- avcC lookup, lines 117-128
\* the first index of lines 120-121 that is outside the buffer, or -1
AvcFault(buf, avc_pos) ==
    IF avc_pos + 5 >= Len(buf) THEN avc_pos + 5
    ELSE IF avc_pos + 7 >= Len(buf) THEN avc_pos + 7
    ELSE -1

\* if avc_pos > 0
AvcUsable(avc_pos) == avc_pos > 0

AvcConfig(buf, avc_pos) ==
    LET profile_idc == At(buf, avc_pos + 5)
        level_idc == At(buf, avc_pos + 7)
    IN  [kind |-> "config",
         profile_name |-> ProfileName(profile_idc),
         profile_idc |-> profile_idc,
         level |-> FormatLevel(level_idc)]

AvcFound ==
    /\ pc = "avc"
    /\ AvcUsable(Find(raw, AVCC))
    /\ AvcFault(raw, Find(raw, AVCC)) = -1
    /\ avc' = <<AvcConfig(raw, Find(raw, AVCC))>>
    /\ pc' = "done"
    /\ UNCHANGED <<raw, pos, item_count, items, delimiter, i, video_start, atom,
                   error, oob>>

AvcIndexError ==
    /\ pc = "avc"
    /\ AvcUsable(Find(raw, AVCC))
    /\ AvcFault(raw, Find(raw, AVCC)) # -1
    /\ oob' = <<AvcFault(raw, Find(raw, AVCC))>>
    /\ error' = TRUE
    /\ pc' = "done"
    /\ UNCHANGED <<raw, pos, item_count, items, delimiter, i, video_start, atom,
                   avc>>

AvcMissing ==
    /\ pc = "avc"
    /\ ~AvcUsable(Find(raw, AVCC))
    /\ avc' = <<[kind |-> "notfound"]>>
    /\ pc' = "done"
    /\ UNCHANGED <<raw, pos, item_count, items, delimiter, i, video_start, atom,
                   error, oob>>

Next ==
    \/ FragItem
    \/ FragDelimiter
    \/ FragSkip
    \/ FragEnd
    \/ BoxProbe
    \/ BoxMatch
    \/ BoxEnd
    \/ AtomReport
    \/ AtomSkip
    \/ AvcFound
    \/ AvcIndexError
    \/ AvcMissing

Spec == Init /\ [][Next]_vars

TypeOK ==
    /\ pc \in {"frag", "box", "check", "avc", "done"}
    /\ item_count = Len(items)
    /\ Len(delimiter) <= 1
    /\ i \in 0..SearchLimit
\* ================================================================== claims
\* vocabulary of the claims, written without the operators of the model
IsEmptyOrUndefined(length) == length = <<0, 0>> \/ length = <<65535, 65535>>

IsTag(buf, k) ==
    /\ k + 4 <= Len(buf)
    /\ \/ <<buf[k + 1], buf[k + 2], buf[k + 3], buf[k + 4]>> = <<102, 116, 121, 112>>
       \/ <<buf[k + 1], buf[k + 2], buf[k + 3], buf[k + 4]>> = <<109, 100, 97, 116>>

Least(S) == IF S = {} THEN -1 ELSE CHOOSE k \in S : \A h \in S : k <= h

\* the first ftyp/mdat tag whose 4 bytes lie inside buf[0..min(len, 200)]
FirstTagInside(buf) ==
    Least({k \in 0..(Min(Len(buf), 200) - 4) : IsTag(buf, k)})

\* the first ftyp/mdat tag that starts inside buf[0..min(len, 200)]
FirstTagStarting(buf) ==
    Least({k \in 0..(Min(Len(buf), 200) - 1) : IsTag(buf, k)})

\* the first avcC tag of the whole buffer
FirstAvcC(buf) ==
    Least({k \in 0..(Len(buf) - 4) :
              <<buf[k + 1], buf[k + 2], buf[k + 3], buf[k + 4]>> = <<97, 118, 99, 67>>})

\* the AVC configuration of a report, None (<<>>) when there is none
AvcResult(report) ==
    IF report # <<>> /\ report[1].kind = "config" THEN report ELSE <<>>

\* C1: for every buffer the analysis produces its report without a read at an
\* index outside the buffer, and the position of the fragment scan strictly
\* increases on every iteration of its loop.
C1_NoReadOutsideBuffer ==
    [][/\ oob' = <<>>
       /\ (pc = "frag" /\ pc' = "frag") =>
              (pos'[1] > pos[1] \/ (pos'[1] = pos[1] /\ pos'[2] > pos[2]))]_vars

\* C2: the AVC configuration of the analysis equals the result of searching the
\* full buffer for avcC on its own, whether or not a box was found; a complete
\* avcC record without any ftyp/mdat tag still yields the configuration.
AvcOnItsOwn(buf) ==
    LET avc_pos == Find(buf, AVCC)
    IN  IF AvcUsable(avc_pos) /\ AvcFault(buf, avc_pos) = -1
        THEN <<AvcConfig(buf, avc_pos)>>
        ELSE <<>>

C2_AvcIndependent ==
    pc = "done" => AvcResult(avc) = AvcOnItsOwn(raw)

\* C3: when the first ftyp/mdat tag of the window is at index t >= 4 (t = 4
\* included), the box reported has offset t - 4, the big-endian 32-bit value of
\* buf[t-4..t] as its size and the 4 bytes at t as its type.
C3_BoxHeader ==
    LET t == FirstTagInside(raw)
    IN  (pc = "done" /\ t >= 4) =>
            /\ atom # <<>>
            /\ atom[1].offset = t - 4
            /\ atom[1].size = <<256 * raw[t - 3] + raw[t - 2], 256 * raw[t - 1] + raw[t]>>
            /\ atom[1].type = <<raw[t + 1], raw[t + 2], raw[t + 3], raw[t + 4]>>

\* C4: when the 32-bit size field before the tag is 1, the declared size of the
\* reported box is the 64-bit big-endian value at buf[t+4..t+12], never 1.
\* (The report of the code carries no header length.)
C4_ExtendedSize ==
    (pc = "done" /\ atom # <<>>) =>
        LET t == atom[1].offset + 4
        IN  <<raw[t - 3], raw[t - 2], raw[t - 1], raw[t]>> = <<0, 0, 0, 1>> =>
                /\ atom[1].size # <<0, 1>>
                /\ t + 12 <= Len(raw) =>
                       /\ <<raw[t + 5], raw[t + 6], raw[t + 7], raw[t + 8]>> = <<0, 0, 0, 0>>
                       /\ atom[1].size = <<256 * raw[t + 9] + raw[t + 10],
                                           256 * raw[t + 11] + raw[t + 12]>>

\* C5: when the first avcC tag is at k with k + 7 >= len(buf), the AVC result
\* is the ordinary not-found outcome: no read outside the buffer is attempted
\* and no error is raised or reported.
C5_TruncatedAvcC ==
    LET k == FirstAvcC(raw)
    IN  (pc = "done" /\ k >= 0 /\ k + 7 >= Len(raw)) =>
            /\ AvcResult(avc) = <<>>
            /\ error = FALSE
            /\ oob = <<>>

\* C6: when the first avcC tag is at any k >= 0 with k + 7 < len(buf), the AVC
\* configuration is found with profile_idc = buf[k+5], level_idc = buf[k+7],
\* the name Baseline/Main/High/Unknown and the level level_idc / 10.
C6_ProfileLevel ==
    LET k == FirstAvcC(raw)
    IN  (pc = "done" /\ k >= 0 /\ k + 7 < Len(raw)) =>
            /\ avc # <<>>
            /\ avc[1].kind = "config"
            /\ avc[1].profile_idc = raw[k + 6]
            /\ avc[1].profile_name =
                   (CASE raw[k + 6] = 66 -> "Baseline"
                      [] raw[k + 6] = 77 -> "Main"
                      [] raw[k + 6] = 100 -> "High"
                      [] OTHER -> "Unknown")
            /\ 10 * avc[1].level[1] + avc[1].level[2] = raw[k + 8]
            /\ avc[1].level[2] \in 0..9
            /\ (raw[k + 6] = 100 /\ raw[k + 8] = 41) =>
                   /\ avc[1].profile_name = "High"
                   /\ avc[1].level = <<4, 1>>
\* C7: in the fragment scan an item with length 0 or 0xFFFFFFFF advances the
\* position by exactly 8 and the scan continues, any other length advances by
\* 8 + length and stops the scan; so at most one fragment has another length,
\* it is the last, and offsets strictly increase.  The 12-byte buffer
\* [FE FF 00 E0][04 00 00 00][4 bytes] gives one fragment at offset 0 with
\* length 4 whose payload is bytes 8..12.
C7_ItemStep ==
    (pc = "frag" /\ items' # items) =>
        LET item == items'[Len(items')]
            after8 == <<pos[1] + (pos[2] + 8) \div 65536, (pos[2] + 8) % 65536>>
            lo == after8[2] + item.length[2]
        IN  /\ Len(items') = Len(items) + 1
            /\ pos[1] = 0
            /\ item.offset = pos[2]
            /\ IF IsEmptyOrUndefined(item.length)
               THEN pos' = after8 /\ pc' = "frag"
               ELSE /\ pos' = <<after8[1] + item.length[1] + lo \div 65536, lo % 65536>>
                    /\ pc' # "frag"

C7_ItemList ==
    /\ \A k \in 1..Len(items) :
           ~IsEmptyOrUndefined(items[k].length) => k = Len(items)
    /\ \A j, k \in 1..Len(items) : j < k => items[j].offset < items[k].offset
    /\ (/\ Len(raw) = 12
        /\ SubSeq(raw, 1, 8) = <<254, 255, 0, 224, 4, 0, 0, 0>>
        /\ pc # "frag") =>
           /\ Len(items) = 1
           /\ items[1].offset = 0
           /\ items[1].length = <<0, 4>>
           /\ items[1].offset + 8 = 8
           /\ pos = <<0, 12>>

C7_FragmentAdvance == [][C7_ItemStep /\ C7_ItemList']_vars

\* C7 happens: an empty item, then an item with a concrete length that ends
\* the scan.
C7_Witness ==
    /\ pc = "box"
    /\ Len(items) = 2
    /\ items[1].length = <<0, 0>>
    /\ items[2].length = <<0, 4>>
    /\ pos = <<0, 20>>

\* C8: once the fragment scan matches FE FF DD E0 at the current position the
\* delimiter is recorded and the scan stops: no fragment is recorded from then
\* on, none has an offset greater than the delimiter's, and a buffer that
\* starts with the delimiter yields zero fragments.
C8_DelimiterStep ==
    /\ (/\ pc = "frag"
        /\ pos[1] = 0
        /\ pos[2] < Len(raw)
        /\ pos[2] < 200
        /\ pos[2] + 4 <= Len(raw)
        /\ SubSeq(raw, pos[2] + 1, pos[2] + 4) = <<254, 255, 221, 224>>) =>
           /\ delimiter' = <<pos[2]>>
           /\ pc' # "frag"
           /\ items' = items
    /\ delimiter # <<>> => (items' = items /\ delimiter' = delimiter /\ pc' # "frag")

C8_DelimiterSeen ==
    /\ delimiter # <<>> =>
           /\ pc # "frag"
           /\ \A k \in 1..Len(items) : items[k].offset <= delimiter[1]
    /\ (/\ Len(raw) >= 4
        /\ SubSeq(raw, 1, 4) = <<254, 255, 221, 224>>
        /\ pc # "frag") =>
           /\ items = <<>>
           /\ delimiter = <<0>>

C8_DelimiterStops == [][C8_DelimiterStep /\ C8_DelimiterSeen']_vars

\* C8 happens: a delimiter was matched after an item had been recorded, and the
\* analysis ran to its end.
C8_Witness ==
    /\ pc = "done"
    /\ delimiter # <<>>
    /\ Len(items) >= 1
    /\ delimiter[1] > 0

\* C9: every recorded fragment has offset + 8 + length <= len(buf) unless its
\* length is 0xFFFFFFFF, also when the length field is cut short or the
\* declared length runs past the end of the buffer.
C9_FragmentInsideBuffer ==
    \A k \in 1..Len(items) :
        items[k].length # <<65535, 65535>> =>
            /\ items[k].length[1] = 0
            /\ items[k].offset + 8 + items[k].length[2] <= Len(raw)

====
